---- MODULE Spec2Model ----
(***************************************************************************)
(* Gheed's Gamble: the draw flow of src/app/page.tsx (the Home component   *)
(* and the Wheel component it renders), the client of the run store in     *)
(* src/utils/runStorage.ts, and the handlers of src/app/api/runs (GET,     *)
(* POST) and src/app/api/runs/[id] (PATCH, DELETE) over the tables of      *)
(* schema.sql.  A handler takes one step per SQL statement it awaits.      *)
(*                                                                         *)
(* A handler of the page runs against the values of the latest render, so  *)
(* each handler is one atomic action over the current state.  The one      *)
(* exception is the callback that confirmSelection hands to setTimeout: it *)
(* calls the prepareChallengeSpin of the render in which the confirm was   *)
(* clicked, and so reads the selections of that render.                    *)
(***************************************************************************)
EXTENDS Integers, Sequences, FiniteSets, TLC

\* ------------------------------------------------------------------ bounds
\* The challenge select offers 0..5 (page.tsx:240-245); the model's user
\* picks among 0..MaxChallengeCount.
MaxChallengeCount == 2
\* Largest digit the model's user types into the rerolls input.
MaxRerolls == 1
\* The class wheel carries the first NumClasses classes of CLASSES.
NumClasses == 4
\* Each build wheel carries the first NumBuilds builds of its class.
NumBuilds == 2

\* saveRun calls that are in flight or have had an id made up by the
\* server: a run is saved only while fewer than MaxRuns of them exist.
MaxRuns == 2

\* ------------------------------------------------------------------ values
Null == "null"
Undefined == "undefined"

\* JavaScript truthiness of the string-or-null values the page tests with
\* ! and && (pendingResult, className, build, currentRunId).
Truthy(v) == v \notin {Null, Undefined, ""}

\* ------------------------------------------------------------------ data.ts
AllClasses ==
    <<"Amazon", "Assassin", "Necromancer", "Barbarian", "Paladin", "Sorceress", "Druid">>

CLASSES == SubSeq(AllClasses, 1, NumClasses)

AllBuilds ==
    [c \in {AllClasses[i] : i \in 1..Len(AllClasses)} |->
        CASE c = "Amazon"      -> <<"Javaazon", "Bowazon (Physical)", "Frost Maiden">>
          [] c = "Assassin"    -> <<"Trapsin (Lightning)", "Kicksin", "Mosaic Sin">>
          [] c = "Necromancer" -> <<"Summonmancer", "Bonemancer", "Poison Nova">>
          [] c = "Barbarian"   -> <<"Whirlwind", "Frenzy", "Singer (Warcry)">>
          [] c = "Paladin"     -> <<"Hammerdin", "Zealot", "Smiter">>
          [] c = "Sorceress"   -> <<"Blizzard", "Lightning", "MeteorOrb">>
          [] c = "Druid"       -> <<"Wind Druid", "Fury Werewolf", "Fire Druid">>]

BUILDS == [c \in DOMAIN AllBuilds |-> SubSeq(AllBuilds[c], 1, NumBuilds)]

AllChallenges ==
    << [id |-> "c1", text |-> "No Runewords", weight |-> 50],
       [id |-> "c2", text |-> "No Teleport", weight |-> 80],
       [id |-> "c3", text |-> "SSF (Solo Self Found)", weight |-> 90],
       [id |-> "c4", text |-> "No Mercenary", weight |-> 60],
       [id |-> "c5", text |-> "Walking Only (No Run)", weight |-> 40],
       [id |-> "c6", text |-> "Rare Items Only", weight |-> 30] >>

\* The pool is longer than every selectable challengeCount, as the 32
\* entries of data.ts are longer than 5.
PoolSize == MaxChallengeCount + 1


\* ------------------------------------------------------------------ state
VARIABLES
    step,                  \* page.tsx:23
    config,                \* page.tsx:24
    selections,            \* page.tsx:25-29
    rerollsLeft,           \* page.tsx:30
    pendingResult,         \* page.tsx:33
    targetChallengeIndex,  \* page.tsx:35  <<>> is undefined, <<i>> is index i
    currentRunId,          \* page.tsx:40
    mustSpin,              \* Wheel, page.tsx:481
    prizeNumber,           \* Wheel, page.tsx:482
    timeouts,              \* callbacks handed to setTimeout, page.tsx:120-123
    session,               \* the signed-in email auth() resolves, or Null
    requests,              \* the POST /api/runs calls of saveRun in flight
    users,                 \* table users (schema.sql), by id
    runsTable,             \* table runs (schema.sql)
    clock,                 \* Date.now() of the server
    minted,                \* how many run ids the server has made up
    response,              \* the answer to the call that ended last
    imports,               \* the importRuns call in progress, if any
    poolSize,              \* how many entries the CHALLENGES of data.ts has
    draw,                  \* a call of getWeightedChallengeIndex and its result
    stage,                 \* how far the flow has followed the Scenario
    lastEvent              \* the handler that ran last

\* The state of the Home component.
pageVars == <<step, config, selections, rerollsLeft, pendingResult,
              targetChallengeIndex, currentRunId>>

wheelVars == <<mustSpin, prizeNumber>>

storeVars == <<session, requests, users, runsTable, clock, minted, response, imports>>

\* What no handler of the page or of the server writes.
dataVars == <<poolSize, draw>>

vars == <<pageVars, wheelVars, timeouts, storeVars, dataVars, stage, lastEvent>>

WheelSteps == {"CLASS", "BUILD", "CHALLENGE"}

\* The challenge pool of data.ts, cut to poolSize entries.
CHALLENGES == SubSeq(AllChallenges, 1, poolSize)

\* ------------------------------------------------------------------ parseInt
Digits == <<"0", "1", "2", "3", "4", "5", "6", "7", "8", "9">>

IsDigit(ch) == \E d \in 1..Len(Digits) : Digits[d] = ch

DigitValue(ch) == (CHOOSE d \in 1..Len(Digits) : Digits[d] = ch) - 1

RECURSIVE ParseDigits(_, _, _)
ParseDigits(s, i, acc) ==
    IF i > Len(s) \/ ~IsDigit(s[i])
    THEN acc
    ELSE ParseDigits(s, i + 1, acc * 10 + DigitValue(s[i]))

\* parseInt of a string given as its sequence of characters: an optional
\* sign, then the longest run of digits; NaN when there is no digit.
ParseInt(s) ==
    LET signed == Len(s) > 0 /\ s[1] \in {"-", "+"}
        first  == IF signed THEN 2 ELSE 1
    IN  IF first > Len(s) \/ ~IsDigit(s[first])
        THEN [nan |-> TRUE, value |-> 0]
        ELSE [nan |-> FALSE,
              value |-> IF signed /\ s[1] = "-"
                        THEN 0 - ParseDigits(s, first, 0)
                        ELSE ParseDigits(s, first, 0)]

\* x || 0 for a number x: NaN and 0 are falsy.
OrZero(p) == IF p.nan \/ p.value = 0 THEN 0 ELSE p.value

\* What the rerolls input can hand to onChange: the empty string, a digit,
\* a signed number, a decimal (min and max of the input do not filter typing).
RerollInputs ==
    {<<>>, <<"-", "1">>, <<"1", ".", "5">>} \cup {<<Digits[d + 1]>> : d \in 0..MaxRerolls}

\* The challenges select offered one option more.
ChallengeOptionsPastEnd == {<<Digits[d + 1]>> : d \in 0..(MaxChallengeCount + 1)}

\* The option values of the challenges select.
ChallengeOptions == {<<Digits[d + 1]>> : d \in 0..MaxChallengeCount}

\* ------------------------------------------------------------------ helpers
Range(s) == {s[i] : i \in 1..Len(s)}

RECURSIVE SumWeights(_)
SumWeights(s) == IF s = <<>> THEN 0 ELSE Head(s).weight + SumWeights(Tail(s))

RECURSIVE Filter(_, _)
Filter(s, keep) ==
    IF s = <<>> THEN <<>>
    ELSE IF Head(s).id \in keep
         THEN <<Head(s)>> \o Filter(Tail(s), keep)
         ELSE Filter(Tail(s), keep)

\* CHALLENGES.filter(c => !chosen.find(sc => sc.id === c.id))
Available(chosen) ==
    Filter(CHALLENGES, {c.id : c \in Range(CHALLENGES)} \ {sc.id : sc \in Range(chosen)})

\* The loop of getWeightedChallengeIndex stopped only below 0.
RECURSIVE WeightedWalkStrict(_, _, _)
WeightedWalkStrict(availableChallenges, i, random) ==
    IF i >= Len(availableChallenges) THEN 0
    ELSE IF random - availableChallenges[i + 1].weight < 0 THEN i
    ELSE WeightedWalkStrict(availableChallenges, i + 1,
                            random - availableChallenges[i + 1].weight)

\* The loop of getWeightedChallengeIndex from index i (0-based) on.
RECURSIVE WeightedWalk(_, _, _)
WeightedWalk(availableChallenges, i, random) ==
    IF i >= Len(availableChallenges) THEN 0
    ELSE IF random - availableChallenges[i + 1].weight <= 0 THEN i
    ELSE WeightedWalk(availableChallenges, i + 1,
                      random - availableChallenges[i + 1].weight)

\* getWeightedChallengeIndex took every candidate for equally heavy.
getUnweightedIndex(availableChallenges, random) ==
    (random * Len(availableChallenges)) \div SumWeights(availableChallenges)

\* getWeightedChallengeIndex with Math.random() * totalWeight = random.
getWeightedChallengeIndex(availableChallenges, random) ==
    WeightedWalk(availableChallenges, 0, random)

\* The values Math.random() * totalWeight takes, in whole units of weight:
\* Math.random() is in [0, 1), so the product stays below totalWeight.
RandomWeights(availableChallenges) == 0..(SumWeights(availableChallenges) - 1)

\* CHALLENGES.find(c => c.text === text), as a sequence of at most one.
FindByText(text) ==
    LET hits == {i \in 1..Len(CHALLENGES) : CHALLENGES[i].text = text}
    IN  IF hits = {} THEN <<>>
        ELSE <<CHALLENGES[CHOOSE i \in hits : \A j \in hits : i <= j]>>

\* The Wheel of BUILD showed the builds of the first class, whatever class
\* was confirmed.
ItemsOfFirstClass ==
    IF step = "CLASS" THEN CLASSES
    ELSE IF step = "BUILD" /\ Truthy(selections.className)
         THEN BUILDS[CLASSES[1]]
         ELSE [i \in 1..Len(CHALLENGES) |-> CHALLENGES[i].text]

\* The items prop of the Wheel (page.tsx:277-281).
Items ==
    IF step = "CLASS" THEN CLASSES
    ELSE IF step = "BUILD" /\ Truthy(selections.className)
         THEN BUILDS[selections.className]
         ELSE [i \in 1..Len(CHALLENGES) |-> CHALLENGES[i].text]

\* The winningIndex prop of the Wheel (page.tsx:282).
winningIndex == IF step = "CHALLENGE" THEN targetChallengeIndex ELSE <<>>

\* The Wheel stayed on the page beside a pending result.
WheelShownWithResult == step \in WheelSteps /\ Len(Items) > 0

\* The Wheel is rendered while a wheel step has no pending result, and it
\* renders nothing for an empty item list (page.tsx:266, 274, 484).
WheelShown ==
    step \in WheelSteps /\ ~Truthy(pendingResult) /\ Len(Items) > 0

\* The Wheel keeps mustSpin and prizeNumber only while the same instance
\* stays rendered; a Wheel rendered anew starts from its useState values.
FreshWheel == mustSpin' = FALSE /\ prizeNumber' = 0

\* ------------------------------------------------------------------ scenario
\* The worked example of the flow: the configuration it starts from, and
\* what the visitor does and the wheel settles on, in order.
ScenarioConfig == [rerolls |-> 1, challengeCount |-> 2]

Scenario ==
    << [event |-> "start",   result |-> Null],
       [event |-> "settle",  result |-> "Barbarian"],
       [event |-> "confirm", result |-> Null],
       [event |-> "settle",  result |-> "Whirlwind"],
       [event |-> "confirm", result |-> Null],
       [event |-> "settle",  result |-> "No Runewords"],
       [event |-> "reroll",  result |-> Null],
       [event |-> "settle",  result |-> "No Teleport"],
       [event |-> "confirm", result |-> Null],
       [event |-> "settle",  result |-> "SSF (Solo Self Found)"],
       [event |-> "confirm", result |-> Null] >>

\* The flow has left the Scenario.
Off == 0 - 1

\* stage counts the entries of the Scenario the flow has gone through since
\* CONFIG.  A click on SPIN and the timeout of a confirm are no entries of
\* it; reset starts over.
Monitor ==
    stage' =
        CASE lastEvent' = "reset" -> 0
          [] lastEvent' \in {"spin", "timeout", "setRerolls", "setChallengeCount"} -> stage
          [] stage \in 0..(Len(Scenario) - 1) ->
                LET next == Scenario[stage + 1]
                IN  IF /\ lastEvent' = next.event
                       /\ next.event = "settle" => pendingResult' = next.result
                       /\ next.event = "start" => config = ScenarioConfig
                    THEN stage + 1
                    ELSE Off
          [] OTHER -> Off

\* ------------------------------------------------------------------ selector
\* No call of getWeightedChallengeIndex has been recorded.
NoDraw == [availableChallenges |-> <<>>, random |-> 0, index |-> 0]

\* The list availableChallenges with its weights in halves of a unit, so
\* that the values of Math.random() * totalWeight between two whole numbers
\* have a representative: 2 * k + 1 stands for k + 1/2.
InHalves(availableChallenges) ==
    [i \in 1..Len(availableChallenges) |->
        [availableChallenges[i] EXCEPT !.weight = 2 * @]]

\* The values of Math.random() * totalWeight in halves of a unit.
RandomHalves(availableChallenges) == RandomWeights(InHalves(availableChallenges))

\* One call of getWeightedChallengeIndex (page.tsx:55-64), on the pool
\* without the challenges of the ids in excluded; draw keeps the first call.
Draw ==
    /\ draw = NoDraw
    /\ \E excluded \in SUBSET {c.id : c \in Range(CHALLENGES)} :
          LET availableChallenges ==
                  Filter(CHALLENGES, {c.id : c \in Range(CHALLENGES)} \ excluded)
          IN  /\ Len(availableChallenges) > 0
              /\ \E random \in RandomHalves(availableChallenges) :
                    draw' = [availableChallenges |-> availableChallenges,
                             random |-> random,
                             index |-> getWeightedChallengeIndex(
                                           InHalves(availableChallenges), random)]
    /\ lastEvent' = "draw"
    /\ UNCHANGED <<pageVars, wheelVars, timeouts, storeVars, poolSize, stage>>

\* ------------------------------------------------------------------ CONFIG
\* onChange of the rerolls input (page.tsx:226).
SetRerolls ==
    /\ step = "CONFIG"
    /\ \E value \in RerollInputs :
          config' = [config EXCEPT !.rerolls = OrZero(ParseInt(value))]
    /\ lastEvent' = "setRerolls"
    /\ UNCHANGED <<step, selections, rerollsLeft, pendingResult,
                   targetChallengeIndex, currentRunId, mustSpin, prizeNumber,
                   timeouts, storeVars, dataVars>>
    /\ Monitor

\* onChange of the challenges select (page.tsx:237).
SetChallengeCount ==
    /\ step = "CONFIG"
    /\ \E value \in ChallengeOptions :
          config' = [config EXCEPT !.challengeCount = ParseInt(value).value]
    /\ lastEvent' = "setChallengeCount"
    /\ UNCHANGED <<step, selections, rerollsLeft, pendingResult,
                   targetChallengeIndex, currentRunId, mustSpin, prizeNumber,
                   timeouts, storeVars, dataVars>>
    /\ Monitor

\* startFlow (page.tsx:47-51), the button of the CONFIG section.
startFlow ==
    /\ step = "CONFIG"
    /\ rerollsLeft' = config.rerolls
    /\ step' = "CLASS"
    /\ pendingResult' = Null
    /\ FreshWheel
    /\ lastEvent' = "start"
    /\ UNCHANGED <<config, selections, targetChallengeIndex, currentRunId, timeouts, storeVars, dataVars>>
    /\ Monitor

\* ------------------------------------------------------------------ Wheel
\* handleSpinClick (page.tsx:501-510): the button is disabled while mustSpin.
handleSpinClick ==
    /\ WheelShown
    /\ ~mustSpin
    /\ IF winningIndex # <<>>
       THEN prizeNumber' = winningIndex[1]
       ELSE \E n \in 0..(Len(Items) - 1) : prizeNumber' = n
    /\ mustSpin' = TRUE
    /\ lastEvent' = "spin"
    /\ UNCHANGED <<step, config, selections, rerollsLeft, pendingResult,
                   targetChallengeIndex, currentRunId, timeouts, storeVars, dataVars>>
    /\ Monitor

\* A spin that settled stored its result in the selections at once.
handleSpinCompleteDirect(result) ==
    /\ pendingResult' = result
    /\ selections' = IF step = "CLASS"
                     THEN [selections EXCEPT !.className = result]
                     ELSE [selections EXCEPT !.build = result]

\* handleSpinComplete (page.tsx:79-82); isSpinning is false from the start
\* and nothing sets it to true.
handleSpinComplete(result) ==
    /\ pendingResult' = result
    /\ UNCHANGED selections

\* handleStopSpinning (page.tsx:512-515).  The wheel turns for seconds, the
\* timeout of confirmSelection runs after 100 ms: it has run when the wheel
\* stops.
handleStopSpinning ==
    /\ WheelShown
    /\ mustSpin
    /\ timeouts = <<>>
    /\ handleSpinComplete(IF prizeNumber < Len(Items)
                          THEN Items[prizeNumber + 1] ELSE Undefined)
    /\ IF Truthy(pendingResult') THEN FreshWheel ELSE mustSpin' = FALSE /\ UNCHANGED prizeNumber
    /\ lastEvent' = "settle"
    /\ UNCHANGED <<step, config, rerollsLeft,
                   targetChallengeIndex, currentRunId, timeouts, storeVars, dataVars>>
    /\ Monitor

\* ------------------------------------------------------------------ draws
\* prepareChallengeSpin (page.tsx:66-75) of a render whose selections hold
\* the challenges `chosen`.  `later` is <<s>> when the calling handler sets
\* the step to s after the call, and <<>> when it does not.
prepareChallengeSpin(chosen, later) ==
    LET available == Available(chosen)
    IN  IF Len(available) = 0
        THEN /\ step' = IF later = <<>> THEN "RESULT" ELSE later[1]
             /\ UNCHANGED targetChallengeIndex
        ELSE /\ step' = IF later = <<>> THEN step ELSE later[1]
             /\ \E random \in RandomWeights(available) :
                   targetChallengeIndex' =
                       <<getWeightedChallengeIndex(available, random)>>

\* confirmSelection in CLASS (page.tsx:87-90).
ConfirmClass ==
    /\ step = "CLASS"
    /\ selections' = [selections EXCEPT !.className = pendingResult]
    /\ pendingResult' = Null
    /\ step' = "BUILD"
    /\ UNCHANGED <<targetChallengeIndex, timeouts>>

\* confirmSelection in BUILD went on to CHALLENGE whatever the config asks.
ConfirmBuildAlwaysDraws ==
    /\ step = "BUILD"
    /\ selections' = [selections EXCEPT !.build = pendingResult]
    /\ pendingResult' = Null
    /\ prepareChallengeSpin(selections.challenges, <<"CHALLENGE">>)
    /\ UNCHANGED timeouts

\* confirmSelection in BUILD (page.tsx:91-99).
ConfirmBuild ==
    /\ step = "BUILD"
    /\ selections' = [selections EXCEPT !.build = pendingResult]
    /\ pendingResult' = Null
    /\ IF config.challengeCount > 0
       THEN prepareChallengeSpin(selections.challenges, <<"CHALLENGE">>)
       ELSE step' = "RESULT" /\ UNCHANGED targetChallengeIndex
    /\ UNCHANGED timeouts

\* confirmSelection in CHALLENGE put the pending challenge in front of the
\* confirmed ones.
ConfirmChallengePrepends ==
    /\ step = "CHALLENGE"
    /\ LET challenge == FindByText(pendingResult)
       IN  selections' = [selections EXCEPT !.challenges = challenge \o @]
    /\ pendingResult' = Null
    /\ IF Len(selections.challenges) + 1 < config.challengeCount
       THEN /\ timeouts' = Append(timeouts, selections.challenges)
            /\ UNCHANGED step
       ELSE /\ step' = "RESULT"
            /\ UNCHANGED timeouts
    /\ UNCHANGED targetChallengeIndex

\* confirmSelection in CHALLENGE (page.tsx:100-127).
ConfirmChallenge ==
    /\ step = "CHALLENGE"
    /\ LET challenge == FindByText(pendingResult)
       IN  selections' = [selections EXCEPT !.challenges = @ \o challenge]
    /\ pendingResult' = Null
    /\ IF Len(selections.challenges) + 1 < config.challengeCount
       THEN /\ timeouts' = Append(timeouts, selections.challenges)
            /\ UNCHANGED step
       ELSE /\ step' = "RESULT"
            /\ UNCHANGED timeouts
    /\ UNCHANGED targetChallengeIndex

\* confirmSelection (page.tsx:84-128), the ACCEPT FATE button, rendered
\* with the pending result (page.tsx:274, 307).
confirmSelection ==
    /\ step \in WheelSteps
    /\ Truthy(pendingResult)
    /\ ConfirmClass \/ ConfirmBuild \/ ConfirmChallenge
    /\ FreshWheel
    /\ lastEvent' = "confirm"
    /\ UNCHANGED <<config, rerollsLeft, currentRunId, storeVars, dataVars>>
    /\ Monitor

\* confirmSelection called without a pending result (page.tsx:85): the
\* handler returns before it sets anything.
confirmSelectionReturn ==
    /\ ~Truthy(pendingResult)
    /\ lastEvent' = "confirm:return"
    /\ UNCHANGED <<pageVars, wheelVars, timeouts, storeVars, dataVars, stage>>

\* The callback of setTimeout (page.tsx:120-123): prepareChallengeSpin of
\* the render in which the confirm was clicked.
TimeoutFires ==
    /\ timeouts # <<>>
    /\ prepareChallengeSpin(Head(timeouts), <<>>)
    /\ timeouts' = Tail(timeouts)
    /\ IF step' = step THEN UNCHANGED <<mustSpin, prizeNumber>> ELSE FreshWheel
    /\ lastEvent' = "timeout"
    /\ UNCHANGED <<config, selections, rerollsLeft, pendingResult, currentRunId, storeVars, dataVars>>
    /\ Monitor

\* The budget test of useReroll let a budget of 0 through.
HasRerollsOffByOne == rerollsLeft >= 0

\* The budget test of useReroll (page.tsx:131).
HasRerolls == rerollsLeft > 0

\* useReroll left the budget as it was.
useRerollFree ==
    /\ step \in WheelSteps
    /\ Truthy(pendingResult)
    /\ IF HasRerolls
       THEN /\ UNCHANGED rerollsLeft
            /\ pendingResult' = Null
            /\ IF step = "CHALLENGE"
               THEN prepareChallengeSpin(selections.challenges, <<>>)
               ELSE UNCHANGED <<step, targetChallengeIndex>>
       ELSE UNCHANGED <<rerollsLeft, pendingResult, step, targetChallengeIndex>>
    /\ FreshWheel
    /\ lastEvent' = "reroll"
    /\ UNCHANGED <<config, selections, currentRunId, timeouts, storeVars, dataVars>>
    /\ Monitor

\* useReroll (page.tsx:130-139), the DEFY FATE button, rendered with the
\* pending result (page.tsx:314).
useReroll ==
    /\ step \in WheelSteps
    /\ Truthy(pendingResult)
    /\ IF HasRerolls
       THEN /\ rerollsLeft' = rerollsLeft - 1
            /\ pendingResult' = Null
            /\ IF step = "CHALLENGE"
               THEN prepareChallengeSpin(selections.challenges, <<>>)
               ELSE UNCHANGED <<step, targetChallengeIndex>>
       ELSE UNCHANGED <<rerollsLeft, pendingResult, step, targetChallengeIndex>>
    /\ FreshWheel
    /\ lastEvent' = "reroll"
    /\ UNCHANGED <<config, selections, currentRunId, timeouts, storeVars, dataVars>>
    /\ Monitor

\* The RESULT card and its buttons stayed on the page during the draws.
ResultShownEarly == step # "CONFIG"

\* The RESULT card, which carries START RUN and NEW RUN (page.tsx:329).
ResultShown == step = "RESULT"

\* reset kept what the finished flow had confirmed.
resetKeepsSelections ==
    /\ ResultShown
    /\ step' = "CONFIG"
    /\ pendingResult' = Null
    /\ currentRunId' = Null
    /\ FreshWheel
    /\ lastEvent' = "reset"
    /\ UNCHANGED <<config, selections, rerollsLeft, targetChallengeIndex, timeouts, storeVars, dataVars>>
    /\ Monitor

\* reset (page.tsx:141-146), the NEW RUN button of the RESULT card.
reset ==
    /\ ResultShown
    /\ step' = "CONFIG"
    /\ selections' = [className |-> Null, build |-> Null, challenges |-> <<>>]
    /\ pendingResult' = Null
    /\ currentRunId' = Null
    /\ FreshWheel
    /\ lastEvent' = "reset"
    /\ UNCHANGED <<config, rerollsLeft, targetChallengeIndex, timeouts, storeVars, dataVars>>
    /\ Monitor

\* ------------------------------------------------------------------ runs
\* The emails the identity provider signs in.
Emails == {"a@example.com", "b@example.com"}

Statuses == {"active", "completed", "failed"}

\* The statuses a run is not to leave.
Terminal == {"completed", "failed"}

RemoveAt(q, i) == SubSeq(q, 1, i - 1) \o SubSeq(q, i + 1, Len(q))

\* A fetch on its way: the method, the session its cookie carries, the run
\* id of its path, its JSON body, the caller that awaits it, and where the
\* handler stands.
Request(op, sess, id, body, from) ==
    [op |-> op, session |-> sess, id |-> id, body |-> body, from |-> from,
     pc |-> "auth", userId |-> Null]

\* saveRun posted the run as a completed one.
saveRunCompleted(sess, from, run) ==
    requests' = Append(requests,
        Request("POST", sess, Null, [run EXCEPT !.status = "completed"], from))

\* saveRun (runStorage.ts:32-41), up to the fetch: POST /api/runs.
saveRun(sess, from, run) ==
    requests' = Append(requests, Request("POST", sess, Null, run, from))

\* run.id where run is what saveRun returned: saveRun is an async
\* function (runStorage.ts:32), so run is a promise and has no id.
PromiseId == Undefined

\* handleStartRun (page.tsx:149-160), the START RUN button, rendered in
\* RESULT while currentRunId is falsy (page.tsx:352).  saveRun
\* (runStorage.ts:32-51) posts the run and returns at once; setRuns(getRuns())
\* stores a promise in runs, as the mount effect did, and GET changes nothing.
handleStartRun ==
    /\ ResultShown
    /\ ~Truthy(currentRunId)
    /\ minted + Len(requests) < MaxRuns
    /\ IF ~Truthy(selections.className) \/ ~Truthy(selections.build)
       THEN UNCHANGED <<requests, currentRunId>>
       ELSE /\ saveRun(session, "page",
                       [className |-> selections.className,
                        build |-> selections.build,
                        challenges |-> selections.challenges,
                        status |-> "active",
                        notes |-> Undefined])
            /\ currentRunId' = PromiseId
    /\ lastEvent' = "commitRun"
    /\ UNCHANGED <<step, config, selections, rerollsLeft, pendingResult,
                   targetChallengeIndex, wheelVars, timeouts,
                   session, users, runsTable, clock, minted, response, imports,
                   dataVars, stage>>

\* What a server step leaves alone: the page hears of a response only
\* through the promise of saveRun, which handleStartRun does not await.
ServerFrame == UNCHANGED <<pageVars, wheelVars, timeouts, session, dataVars, stage>>

\* session?.user?.email of the handlers (route.ts:21, 46; [id]/route.ts at
\* data.ts:132, 171): the request carries a session with an email.
AuthenticatedAlways(sess) == TRUE

Authenticated(sess) == Truthy(sess)

\* response.ok of fetch: a status of 200..299.  Status 0 stands for a fetch
\* that rejected.
ResponseOk(status) == status \in 200..299

\* What the functions of runStorage.ts hand to their caller.  threw: the
\* promise rejected; ok: the boolean of updateRunStatus and deleteRun; runs:
\* the list of getRuns, or the run of saveRun (<<>> for null).
getRunsRethrows(status, rows) ==
    [threw |-> ~ResponseOk(status) /\ status # 401, ok |-> ResponseOk(status),
     runs |-> IF ResponseOk(status) THEN rows ELSE <<>>]

\* getRuns (runStorage.ts:14-29): [] for 401, and for every other failure
\* through the catch.
getRunsReturn(status, rows) ==
    [threw |-> FALSE, ok |-> ResponseOk(status),
     runs |-> IF ResponseOk(status) THEN rows ELSE <<>>]

\* saveRun (runStorage.ts:42-50): the run of the response, null otherwise.
saveRunReturn(status, rows) ==
    [threw |-> FALSE, ok |-> ResponseOk(status),
     runs |-> IF ResponseOk(status) THEN rows ELSE <<>>]

\* updateRunStatus and deleteRun (runStorage.ts:54-83): response.ok, false
\* from the catch.
okReturn(status) ==
    [threw |-> FALSE, ok |-> ResponseOk(status), runs |-> <<>>]

Return(op, status, rows) ==
    CASE op = "GET"  -> getRunsReturn(status, rows)
      [] op = "POST" -> saveRunReturn(status, rows)
      [] OTHER       -> okReturn(status)

NoResponse ==
    [op |-> "none", request |-> Request("none", Null, Null, Null, Null),
     status |-> 0, rows |-> <<>>, result |-> okReturn(0)]

\* The handler answers request i and the function of runStorage.ts that
\* sent it returns to the caller that awaits it.  handleStartRun awaits
\* nothing (page.tsx:152-158), so what its saveRun resolves to is dropped.
\* The loop of importRuns pushes the run saveRun returned
\* (runStorage.ts:109-112).
Resolve(i, status, rows) ==
    LET req == requests[i]
        result == Return(req.op, status, rows)
    IN  /\ requests' = RemoveAt(requests, i)
        /\ response' = IF req.from = "page"
                       THEN response
                       ELSE [op |-> req.op, request |-> req, status |-> status,
                             rows |-> rows, result |-> result]
        /\ imports' = IF req.from = "import"
                      THEN <<[imports[1] EXCEPT !.created = @ \o result.runs,
                                                !.waiting = FALSE]>>
                      ELSE imports
        /\ lastEvent' = CASE req.op # "POST"  -> req.op
                          [] result.runs = <<>> -> "saveRun:null"
                          [] OTHER              -> "saveRun:run"

\* POST /api/runs without a session (route.ts:44-48): 401.
PostUnauthorized ==
    \E i \in 1..Len(requests) :
        /\ requests[i].op = "POST"
        /\ requests[i].pc = "auth"
        /\ ~Authenticated(requests[i].session)
        /\ Resolve(i, 401, <<>>)
        /\ UNCHANGED <<users, runsTable, clock, minted>>
        /\ ServerFrame

\* POST /api/runs with a session (route.ts:44-55): on to getOrCreateUser.
PostAuthorized ==
    \E i \in 1..Len(requests) :
        /\ requests[i].op = "POST"
        /\ requests[i].pc = "auth"
        /\ Authenticated(requests[i].session)
        /\ requests' = [requests EXCEPT ![i].pc = "selectUser",
                                        ![i].userId = requests[i].session]
        /\ lastEvent' = "POST"
        /\ UNCHANGED <<users, runsTable, clock, minted, response, imports>>
        /\ ServerFrame

\* getOrCreateUser, the SELECT (db.ts:10-16).
GetUser ==
    \E i \in 1..Len(requests) :
        /\ requests[i].pc = "selectUser"
        /\ requests' = [requests EXCEPT
               ![i].pc = IF requests[i].userId \in users THEN "insertRun" ELSE "insertUser"]
        /\ lastEvent' = "POST"
        /\ UNCHANGED <<users, runsTable, clock, minted, response, imports>>
        /\ ServerFrame

\* getOrCreateUser, the INSERT (db.ts:19-25): id is the primary key of
\* users, so the INSERT of an id that is present throws and POST answers 500.
CreateUser ==
    \E i \in 1..Len(requests) :
        /\ requests[i].pc = "insertUser"
        /\ IF requests[i].userId \in users
           THEN Resolve(i, 500, <<>>) /\ UNCHANGED users
           ELSE /\ users' = users \cup {requests[i].userId}
                /\ requests' = [requests EXCEPT ![i].pc = "insertRun"]
                /\ lastEvent' = "POST"
                /\ UNCHANGED <<response, imports>>
        /\ UNCHANGED <<runsTable, clock, minted>>
        /\ ServerFrame

\* `run_${Date.now()}_${random}` (route.ts:60), a fresh id: the id of the
\* n-th run the server names.
RunId(n) == "run_" \o ToString(n)

\* Table runs had no CHECK on status.
RowAcceptedAnyStatus(row) ==
    /\ Truthy(row.className)
    /\ Truthy(row.build)
    /\ row.user_id \in users

\* The constraints of table runs (schema.sql): the columns that are NOT
\* NULL, the CHECK on status, the user the row REFERENCES.
RowAccepted(row) ==
    /\ Truthy(row.className)
    /\ Truthy(row.build)
    /\ row.status \in Statuses
    /\ row.user_id \in users

\* INSERT INTO runs (route.ts:64-67): one more row.
InsertReplacing(table, row) ==
    {r \in table : r.user_id # row.user_id} \cup {row}

InsertRow(table, row) == table \cup {row}

\* The columns GET selects and POST answers with (route.ts:28, 69-77).
Columns(row) ==
    [id |-> row.id, timestamp |-> row.timestamp, className |-> row.className,
     build |-> row.build, challenges |-> row.challenges,
     status |-> row.status, notes |-> row.notes]

\* POST /api/runs, the INSERT and the answer (route.ts:57-79).  Date.now()
\* is the clock, which may have moved on since the last call.  The row
\* stores notes || null; the answer carries the notes of the body.
InsertRun ==
    \E i \in 1..Len(requests), now \in {clock, clock + 1} :
        /\ requests[i].pc = "insertRun"
        /\ LET body == requests[i].body
               row == [id |-> RunId(minted + 1),
                       user_id |-> requests[i].userId,
                       timestamp |-> now,
                       className |-> body.className,
                       build |-> body.build,
                       challenges |-> body.challenges,
                       status |-> body.status,
                       notes |-> IF Truthy(body.notes) THEN body.notes ELSE Null]
           IN  IF RowAccepted(row)
               THEN /\ runsTable' = InsertRow(runsTable, row)
                    /\ Resolve(i, 201, <<[Columns(row) EXCEPT !.notes = body.notes]>>)
               ELSE UNCHANGED runsTable /\ Resolve(i, 500, <<>>)
        /\ clock' = now
        /\ minted' = minted + 1
        /\ UNCHANGED users
        /\ ServerFrame

\* WHERE id = ${id} AND user_id = ${userId} ([id]/route.ts at data.ts:148,
\* 181): the rows a PATCH or DELETE acts on.
WhereAnyOwner(table, id, userId) == {r \in table : r.id = id}

WhereOwned(table, id, userId) ==
    {r \in table : r.id = id /\ r.user_id = userId}

\* The UPDATE kept the stored notes when the body has none.
UpdateRunsKeepingNotes(table, id, userId, status, notes) ==
    {IF r.id = id /\ r.user_id = userId
     THEN [r EXCEPT !.status = status,
                    !.notes = IF notes # Undefined THEN notes ELSE @]
     ELSE r : r \in table}

\* UPDATE runs SET status, notes WHERE ... (data.ts:143-150): one
\* statement; notes that are undefined store null.
UpdateRuns(table, id, userId, status, notes) ==
    {IF r \in WhereOwned(table, id, userId)
     THEN [r EXCEPT !.status = status,
                    !.notes = IF notes # Undefined THEN notes ELSE Null]
     ELSE r : r \in table}

\* The DELETE had no id in its WHERE.
DeleteRunsOfOwner(table, id, userId) == {r \in table : r.user_id # userId}

\* DELETE FROM runs WHERE ... (data.ts:179-183): one statement.
DeleteRuns(table, id, userId) == table \ WhereOwned(table, id, userId)

\* PATCH as it would be with the ownership looked up in one statement and
\* the row written by a second one.
PatchCheckThenAct ==
    \E i \in 1..Len(requests) :
        /\ requests[i].op = "PATCH"
        /\ LET req == requests[i]
           IN  \/ /\ req.pc = "auth"
                  /\ UNCHANGED runsTable
                  /\ IF ~Authenticated(req.session)
                     THEN Resolve(i, 401, <<>>)
                     ELSE IF WhereOwned(runsTable, req.id, req.session) = {}
                     THEN Resolve(i, 404, <<>>)
                     ELSE /\ requests' = [requests EXCEPT ![i].pc = "update"]
                          /\ lastEvent' = "PATCH"
                          /\ UNCHANGED <<response, imports>>
               \/ /\ req.pc = "update"
                  /\ runsTable' = UpdateRuns(runsTable, req.id, req.session,
                                             req.body.status, req.body.notes)
                  /\ Resolve(i, 200, <<>>)
        /\ UNCHANGED <<users, clock, minted>>
        /\ ServerFrame

\* PATCH /api/runs/[id] (data.ts:125-161).  No row for the WHERE: 404.  A
\* status the CHECK of schema.sql refuses makes the UPDATE throw: 500.
PATCH ==
    \E i \in 1..Len(requests) :
        /\ requests[i].op = "PATCH"
        /\ LET req == requests[i]
               updated == UpdateRuns(runsTable, req.id, req.session,
                                     req.body.status, req.body.notes)
           IN  IF ~Authenticated(req.session)
               THEN UNCHANGED runsTable /\ Resolve(i, 401, <<>>)
               ELSE IF WhereOwned(runsTable, req.id, req.session) = {}
               THEN UNCHANGED runsTable /\ Resolve(i, 404, <<>>)
               ELSE IF \E r \in updated : ~RowAccepted(r)
               THEN UNCHANGED runsTable /\ Resolve(i, 500, <<>>)
               ELSE runsTable' = updated /\ Resolve(i, 200, <<>>)
        /\ UNCHANGED <<users, clock, minted>>
        /\ ServerFrame

\* DELETE /api/runs/[id] (data.ts:164-194).
DELETE ==
    \E i \in 1..Len(requests) :
        /\ requests[i].op = "DELETE"
        /\ LET req == requests[i]
           IN  IF ~Authenticated(req.session)
               THEN UNCHANGED runsTable /\ Resolve(i, 401, <<>>)
               ELSE IF WhereOwned(runsTable, req.id, req.session) = {}
               THEN UNCHANGED runsTable /\ Resolve(i, 404, <<>>)
               ELSE /\ runsTable' = DeleteRuns(runsTable, req.id, req.session)
                    /\ Resolve(i, 200, <<>>)
        /\ UNCHANGED <<users, clock, minted>>
        /\ ServerFrame

\* ORDER BY timestamp DESC (route.ts:31).
SortedAsc(rows) ==
    \A j, k \in 1..Len(rows) : j < k => rows[j].timestamp <= rows[k].timestamp

SortedDesc(rows) ==
    \A j, k \in 1..Len(rows) : j < k => rows[j].timestamp >= rows[k].timestamp

\* SELECT ... FROM runs WHERE user_id = ${userId} ORDER BY timestamp DESC
\* (route.ts:27-32): the results the database may give; rows of one
\* timestamp come in any order.
SelectRuns(table, userId) ==
    LET owned == {r \in table : r.user_id = userId}
        n == Cardinality(owned)
    IN  {[k \in 1..n |-> Columns(rows[k])] :
            rows \in {q \in [1..n -> owned] :
                        /\ \A j, k \in 1..n : j # k => q[j] # q[k]
                        /\ SortedDesc(q)}}

\* GET /api/runs (route.ts:17-39).
GET ==
    \E i \in 1..Len(requests) :
        /\ requests[i].op = "GET"
        /\ IF ~Authenticated(requests[i].session)
           THEN Resolve(i, 401, <<>>)
           ELSE \E rows \in SelectRuns(runsTable, requests[i].session) :
                    Resolve(i, 200, rows)
        /\ UNCHANGED <<users, runsTable, clock, minted>>
        /\ ServerFrame

\* The database or the network fails under a request: the handler answers
\* 500 from its catch (route.ts:35-38, 80-83; data.ts:157-160, 190-193) or
\* the fetch rejects (status 0).
RequestFails ==
    \E i \in 1..Len(requests), status \in {0, 500} :
        /\ Resolve(i, status, <<>>)
        /\ UNCHANGED <<users, runsTable, clock, minted>>
        /\ ServerFrame

\* The identity provider signs the visitor in (auth.ts).
SignIn ==
    /\ ~Truthy(session)
    /\ \E email \in Emails : session' = email
    /\ lastEvent' = "signIn"
    /\ UNCHANGED <<pageVars, wheelVars, timeouts, requests, users, runsTable,
                   clock, minted, response, imports, dataVars, stage>>

\* ------------------------------------------------------------------ callers
\* The callers of the run store: a visitor signed in under one of the
\* emails, or one without a session.
Sessions == Emails \cup {Null}

\* The runs the callers save.  A status the schema does not know and a
\* body without className are the payloads a handler has to refuse.
RunInput(status, notes) ==
    [className |-> "Amazon", build |-> "Javaazon",
     challenges |-> <<AllChallenges[1]>>, status |-> status, notes |-> notes]

RunInputs ==
    {RunInput("active", Undefined), RunInput("active", ""),
     RunInput("completed", "gg"), RunInput("bogus", Undefined),
     [RunInput("active", Undefined) EXCEPT !.className = Undefined]}

\* The status and notes the callers send with an update, and the ids they
\* name: the first run the server named, and RunId(0), an id no run ever has.
StatusInputs == Statuses \cup {"bogus"}

NotesInputs == {Undefined, "gg"}

IdInputs == {RunId(0), RunId(1)}

\* exportRuns(runs) (runStorage.ts:86-95) writes a list getRuns returned
\* to a file.  The files the callers import are the lists of the owners as
\* they are now, and a file of another store, whose runs have ids this
\* store never gives and were stored before its clock started.
ExportTime == 0 - 1

ExportedRun(id, status, notes) ==
    [id |-> id, timestamp |-> ExportTime, className |-> "Amazon",
     build |-> "Javaazon", challenges |-> <<AllChallenges[1]>>,
     status |-> status, notes |-> notes]

ForeignFile ==
    <<ExportedRun(RunId(0), "failed", Null),
      ExportedRun(RunId(ExportTime), "active", Null)>>

ImportFiles ==
    {ForeignFile} \cup UNION {SelectRuns(runsTable, owner) : owner \in Emails}

\* Ids are made up for at most MaxRuns runs: the runs named so far, the
\* POSTs in flight and the records an import has yet to save.
PostsInFlight == Len(SelectSeq(requests, LAMBDA r : r.op = "POST"))

RunsToImport == IF imports = <<>> THEN 0 ELSE Len(imports[1].todo)

CanCreate(n) == minted + PostsInFlight + RunsToImport + n <= MaxRuns

\* No call is under way and the caller of the last one has gone on.
Idle == requests = <<>> /\ imports = <<>> /\ response = NoResponse

ClientFrame ==
    UNCHANGED <<pageVars, wheelVars, timeouts, session, users, runsTable,
                clock, minted, dataVars, stage>>

\* A caller awaits saveRun(run) (runStorage.ts:32-51).
CallSaveRun(sess, run) ==
    /\ CanCreate(1)
    /\ saveRun(sess, "caller", run)
    /\ UNCHANGED response
    /\ lastEvent' = "saveRun"
    /\ UNCHANGED imports
    /\ ClientFrame

\* updateRunStatus(id, status, notes) (runStorage.ts:54-62), up to the fetch.
updateRunStatus(sess, id, status, notes) ==
    /\ requests' = Append(requests,
           Request("PATCH", sess, id, [status |-> status, notes |-> notes], "caller"))
    /\ UNCHANGED response
    /\ lastEvent' = "updateRunStatus"
    /\ UNCHANGED imports
    /\ ClientFrame

\* deleteRun(id) (runStorage.ts:72-76), up to the fetch.
deleteRun(sess, id) ==
    /\ requests' = Append(requests, Request("DELETE", sess, id, Null, "caller"))
    /\ UNCHANGED response
    /\ lastEvent' = "deleteRun"
    /\ UNCHANGED imports
    /\ ClientFrame

\* getRuns() (runStorage.ts:14-16), up to the fetch.
getRuns(sess) ==
    /\ requests' = Append(requests, Request("GET", sess, Null, Null, "caller"))
    /\ UNCHANGED response
    /\ lastEvent' = "getRuns"
    /\ UNCHANGED imports
    /\ ClientFrame

\* The caller that awaited the call has its answer and goes on: the page
\* keeps nothing of it and fetches the list again (page.tsx:162-182).
CallerContinues ==
    /\ requests = <<>>
    /\ imports = <<>>
    /\ response # NoResponse
    /\ response' = NoResponse
    /\ lastEvent' = "continue"
    /\ UNCHANGED <<requests, imports>>
    /\ ClientFrame

\* const { id, timestamp, ...runData } = run (runStorage.ts:108).
runData(run) ==
    [className |-> run.className, build |-> run.build,
     challenges |-> run.challenges, status |-> run.status, notes |-> run.notes]

\* importRuns(file) (runStorage.ts:98-106): the file is read and parsed.
importRuns(sess, file) ==
    /\ imports = <<>>
    /\ CanCreate(Len(file))
    /\ imports' = <<[session |-> sess, file |-> file, todo |-> file,
                     created |-> <<>>, waiting |-> FALSE]>>
    /\ UNCHANGED response
    /\ lastEvent' = "importRuns"
    /\ UNCHANGED requests
    /\ ClientFrame

\* The loop of importRuns went through the file from its end.
ImportSaveLastFirst ==
    /\ imports # <<>>
    /\ ~imports[1].waiting
    /\ imports[1].todo # <<>>
    /\ LET todo == imports[1].todo
       IN  /\ saveRun(imports[1].session, "import", runData(todo[Len(todo)]))
           /\ imports' = <<[imports[1] EXCEPT !.todo = SubSeq(todo, 1, Len(todo) - 1),
                                              !.waiting = TRUE]>>
    /\ lastEvent' = "importRuns:save"
    /\ UNCHANGED response
    /\ ClientFrame

\* The loop of importRuns (runStorage.ts:107-109): the next run of the
\* file is saved once the one before it has been answered.
ImportSave ==
    /\ imports # <<>>
    /\ ~imports[1].waiting
    /\ imports[1].todo # <<>>
    /\ saveRun(imports[1].session, "import", runData(Head(imports[1].todo)))
    /\ imports' = <<[imports[1] EXCEPT !.todo = Tail(@), !.waiting = TRUE]>>
    /\ lastEvent' = "importRuns:save"
    /\ UNCHANGED response
    /\ ClientFrame

\* resolve(importedRuns) (runStorage.ts:115).
ImportDone ==
    /\ imports # <<>>
    /\ ~imports[1].waiting
    /\ imports[1].todo = <<>>
    /\ response' = [op |-> "import",
                    request |-> Request("import", imports[1].session, Null,
                                        imports[1].file, "caller"),
                    status |-> 0, rows |-> <<>>,
                    result |-> [threw |-> FALSE, ok |-> TRUE,
                                runs |-> imports[1].created]]
    /\ imports' = <<>>
    /\ lastEvent' = "importRuns:done"
    /\ UNCHANGED requests
    /\ ClientFrame

\* ------------------------------------------------------------------ spec
\* The page as it mounts, over a store that holds nothing.
Mounted ==
    /\ step = "CONFIG"
    /\ config = [rerolls |-> 1, challengeCount |-> 1]
    /\ selections = [className |-> Null, build |-> Null, challenges |-> <<>>]
    /\ rerollsLeft = 0
    /\ pendingResult = Null
    /\ targetChallengeIndex = <<>>
    /\ currentRunId = Null
    /\ mustSpin = FALSE
    /\ prizeNumber = 0
    /\ timeouts = <<>>
    /\ session = Null
    /\ requests = <<>>
    /\ users = {}
    /\ runsTable = {}
    /\ clock = 0
    /\ minted = 0
    /\ response = NoResponse
    /\ imports = <<>>
    /\ draw = NoDraw
    /\ stage = 0
    /\ lastEvent = "init"

Init ==
    /\ Mounted
    /\ poolSize = PoolSize

\* Pools that a config of the page can ask more challenges of than they
\* hold.
ShortPools == 0..MaxChallengeCount

InitPool ==
    /\ Mounted
    /\ poolSize \in ShortPools

\* The draw flow of the page.
Flow ==
    \/ SetRerolls
    \/ SetChallengeCount
    \/ startFlow
    \/ handleSpinClick
    \/ handleStopSpinning
    \/ confirmSelection
    \/ TimeoutFires
    \/ useReroll

\* A visitor who never signs in: flow after flow, every POST answered 401.
\* NEW RUN is clicked after the POSTs of the finished flow were answered.
Next ==
    \/ Flow
    \/ (requests = <<>> /\ reset)
    \/ handleStartRun
    \/ PostUnauthorized
    \/ RequestFails

Spec == Init /\ [][Next]_vars

\* One flow of a visitor who may sign in, and the runs it stores.
NextRun ==
    \/ Flow
    \/ handleStartRun
    \/ SignIn
    \/ PostUnauthorized
    \/ PostAuthorized
    \/ GetUser
    \/ CreateUser
    \/ InsertRun
    \/ RequestFails

SpecRun == Init /\ [][NextRun]_vars

\* One flow of a visitor who signs in before the flow starts and clicks
\* START RUN again only after the answer to the click before.
NextCommit ==
    \/ Flow
    \/ (step = "CONFIG" /\ SignIn)
    \/ (requests = <<>> /\ handleStartRun)
    \/ PostUnauthorized
    \/ PostAuthorized
    \/ GetUser
    \/ CreateUser
    \/ InsertRun

SpecCommit == Init /\ [][NextCommit]_vars

\* Flow after flow over a short pool, every call of confirmSelection
\* included.
NextPool ==
    \/ Flow
    \/ reset
    \/ confirmSelectionReturn

SpecPool == InitPool /\ [][NextPool]_vars

\* getWeightedChallengeIndex alone, called on every list prepareChallengeSpin
\* can filter out of the pool and every value of the random source.
NextSelector == Draw

SpecSelector == Init /\ [][NextSelector]_vars

\* The run store under callers that await each call before the next: the
\* three kinds of caller, every operation of runStorage.ts, one call under
\* way at a time.
NextStore ==
    \/ (Idle /\ \E sess \in Sessions, run \in RunInputs :
            CallSaveRun(sess, run))
    \/ (Idle /\ \E sess \in Sessions, id \in IdInputs,
                              status \in StatusInputs, notes \in NotesInputs :
            updateRunStatus(sess, id, status, notes))
    \/ (Idle /\ \E sess \in Sessions, id \in IdInputs :
            deleteRun(sess, id))
    \/ (Idle /\ \E sess \in Sessions : getRuns(sess))
    \/ (Idle /\ \E sess \in Sessions, file \in ImportFiles :
            importRuns(sess, file))
    \/ ImportSave
    \/ ImportDone
    \/ CallerContinues
    \/ PostUnauthorized
    \/ PostAuthorized
    \/ GetUser
    \/ CreateUser
    \/ InsertRun
    \/ PATCH
    \/ DELETE
    \/ GET
    \/ RequestFails

SpecStore == Init /\ [][NextStore]_vars

\* The run store under two calls at a time and a backend that does not
\* fail: signed-in callers save a run and update or delete the first run
\* the server named.
RaceReady == Len(requests) < 2 /\ imports = <<>> /\ response = NoResponse

NextRace ==
    \/ (RaceReady /\ \E sess \in Emails : CallSaveRun(sess, RunInput("active", Undefined)))
    \/ (RaceReady /\ \E sess \in Emails, status \in Terminal, notes \in NotesInputs :
            updateRunStatus(sess, RunId(1), status, notes))
    \/ (RaceReady /\ \E sess \in Emails : deleteRun(sess, RunId(1)))
    \/ CallerContinues
    \/ PostAuthorized
    \/ GetUser
    \/ CreateUser
    \/ InsertRun
    \/ PATCH
    \/ DELETE

SpecRace == Init /\ [][NextRace]_vars

\* ------------------------------------------------------------------ claims
EmptySelections == [className |-> Null, build |-> Null, challenges |-> <<>>]

DistinctIds(chosen) ==
    \A i, j \in 1..Len(chosen) : i # j => chosen[i].id # chosen[j].id

Min(a, b) == IF a <= b THEN a ELSE b

\* C1: in every reachable state the confirmed challenges of the selections
\* carry no id twice.
C1_NoDuplicateIds == DistinctIds(selections.challenges)

\* C2: in RESULT the selections hold exactly min(challengeCount, poolSize)
\* challenges, all with distinct ids.
C2_ResultHoldsMinDistinct ==
    step = "RESULT" =>
        /\ Len(selections.challenges) = Min(config.challengeCount, Len(CHALLENGES))
        /\ DistinctIds(selections.challenges)

\* C3: the reroll budget is never negative, and it does not grow from a
\* start to the next reset.
C3_BudgetFloor ==
    [][/\ rerollsLeft' >= 0
       /\ (step # "CONFIG" /\ step' # "CONFIG") => rerollsLeft' <= rerollsLeft]_vars

\* C4: a reroll invoked at budget 0 changes neither the step, the
\* selections, the pending result, the draw target nor the budget.
C4_RerollAtZeroIsNoOp ==
    [][(lastEvent' = "reroll" /\ rerollsLeft = 0) =>
          UNCHANGED <<step, selections, pendingResult, targetChallengeIndex,
                      rerollsLeft>>]_vars

C4_Witness ==
    /\ lastEvent = "reroll"
    /\ rerollsLeft = 0
    /\ Truthy(pendingResult)
    /\ step = "CHALLENGE"

\* C5: the selections change only in a confirm, which adds the pending
\* result, or in a reset; a reroll, a settling spin, the delayed draw
\* preparation and commitRun leave them as they are.
C5_SelectionsFrame ==
    [][/\ selections' # selections => lastEvent' \in {"confirm", "reset"}
       /\ lastEvent' = "confirm" =>
             \/ selections' = [selections EXCEPT !.className = pendingResult]
             \/ selections' = [selections EXCEPT !.build = pendingResult]
             \/ \E c \in Range(CHALLENGES) :
                   /\ c.text = pendingResult
                   /\ selections' = [selections EXCEPT !.challenges = Append(@, c)]]_vars

C5_Witness ==
    /\ lastEvent = "settle"
    /\ step = "CHALLENGE"
    /\ Truthy(pendingResult)
    /\ rerollsLeft < config.rerolls
    /\ Len(selections.challenges) > 0
    /\ pendingResult \notin {c.text : c \in Range(selections.challenges)}

\* C6: the step moves only along CONFIG -> CLASS -> BUILD -> CHALLENGE ->
\* RESULT, from BUILD to RESULT when no challenge is to be drawn, and from
\* RESULT to CONFIG, which only reset does and only from RESULT.
C6_StepOrder ==
    [][/\ step' # step =>
             \/ step = "CONFIG" /\ step' = "CLASS"
             \/ step = "CLASS" /\ step' = "BUILD"
             \/ step = "BUILD" /\ step' = "CHALLENGE"
             \/ step = "BUILD" /\ step' = "RESULT" /\ config.challengeCount = 0
             \/ step = "CHALLENGE" /\ step' = "RESULT"
             \/ step = "RESULT" /\ step' = "CONFIG" /\ lastEvent' = "reset"
       /\ lastEvent' = "reset" => step = "RESULT"]_vars

C6_Witness ==
    /\ lastEvent = "reset"
    /\ step = "CONFIG"
    /\ targetChallengeIndex # <<>>

\* C7: a confirm or a reroll acts only on a pending result and leaves
\* none behind; a pending result appears only when a spinning wheel
\* settles; and neither a confirm nor a reroll happens while a wheel spins.
C7_PendingOnlyBySettle ==
    [][/\ (lastEvent' = "confirm" \/ (lastEvent' = "reroll" /\ rerollsLeft' # rerollsLeft)) =>
             Truthy(pendingResult) /\ ~Truthy(pendingResult') /\ ~mustSpin'
       /\ (~Truthy(pendingResult) /\ Truthy(pendingResult')) =>
             lastEvent' = "settle" /\ mustSpin
       /\ mustSpin => lastEvent' \notin {"confirm", "reroll"}]_vars

C7_Witness ==
    /\ lastEvent = "confirm"
    /\ step = "CHALLENGE"
    /\ Len(selections.challenges) > 0
    /\ rerollsLeft < config.rerolls

\* C8: for the selections of one RESULT, commitRun creates at most one
\* run (SpecRun is one flow over a store that starts empty).
C8_AtMostOneRun == Cardinality(runsTable) <= 1

\* The state of the page a user can tell a failure from.
pageView == <<step, config, selections, rerollsLeft, pendingResult, currentRunId>>

\* C9: the committed-run marker is set only to a run the store created;
\* when the create of a commitRun fails the marker stays unset, the step
\* and the selections stay, and the page shows the failure.
C9_CommitOutcomeShown ==
    [][/\ Truthy(currentRunId') => \E r \in runsTable' : r.id = currentRunId'
       /\ lastEvent' = "saveRun:null" =>
             /\ ~Truthy(currentRunId')
             /\ step' = step
             /\ selections' = selections
             /\ pageView' # pageView]_vars

\* C10: reset leaves CONFIG with empty selections, no pending result and
\* no committed-run marker; the start after it begins in CLASS with empty
\* selections, no pending result and the budget of the current config.
C10_ResetThenStart ==
    [][/\ lastEvent' = "reset" =>
             /\ step = "RESULT" /\ step' = "CONFIG"
             /\ selections' = EmptySelections
             /\ pendingResult' = Null
             /\ ~Truthy(currentRunId')
       /\ lastEvent' = "start" =>
             /\ step' = "CLASS"
             /\ selections' = EmptySelections
             /\ pendingResult' = Null
             /\ ~Truthy(currentRunId')
             /\ ~mustSpin' /\ timeouts' = <<>>
             /\ rerollsLeft' = config.rerolls /\ config' = config]_vars

C10_Witness ==
    /\ lastEvent = "start"
    /\ targetChallengeIndex # <<>>
    /\ rerollsLeft = config.rerolls
    /\ selections = EmptySelections

\* ------------------------------------------------------------------ run store
\* This step answers request i, and the caller that awaits it holds the
\* answer in response'.
Answered(i) ==
    /\ i \in 1..Len(requests)
    /\ requests' = RemoveAt(requests, i)
    /\ response'.request = requests[i]

\* The stored run of an id, as a set (empty when there is none).
RunsOfId(table, id) == {r \in table : r.id = id}

\* C11: a stored run whose status is completed or failed keeps that status
\* in every step that keeps the run: no updateStatus changes it.
C11_TerminalStatusKept ==
    [][\A r \in runsTable : r.status \in Terminal =>
          \A q \in RunsOfId(runsTable', r.id) : q.status = r.status]_vars

\* The request names no run its sender owns: the id is of no run, or of a
\* run of another owner.
NotOwned(req) ==
    \A r \in RunsOfId(runsTable, req.id) : r.user_id # req.session

\* The answers to an update or delete of a run that is not there: 404, or
\* the failure of the backend or the network.
NotFoundOutcomes == {404, 500, 0}

\* C12: an update or a delete sent by a signed-in caller for a run of
\* another owner is answered as one for an id no run has (404, nothing
\* else in the answer), and leaves the table of runs as it was.
C12_NotOwnedAsNotFound ==
    [][\A i \in 1..Len(requests) :
          (/\ Answered(i)
           /\ requests[i].op \in {"PATCH", "DELETE"}
           /\ Truthy(requests[i].session)
           /\ NotOwned(requests[i]))
          => /\ response'.status \in NotFoundOutcomes
             /\ response'.rows = <<>>
             /\ ~response'.result.ok
             /\ runsTable' = runsTable]_vars

\* A signed-in caller was answered 404 for the update of a run that is
\* stored under another owner.
C12_Witness ==
    /\ response.op = "PATCH"
    /\ response.status = 404
    /\ Truthy(response.request.session)
    /\ \E r \in runsTable :
          /\ r.id = response.request.id
          /\ r.user_id # response.request.session

Mutating == {"POST", "PATCH", "DELETE"}

RunsOfOwner(table, owner) == {r \in table : r.user_id = owner}

\* C14: the list a signed-in caller is answered with holds each run stored
\* under the caller once, with its stored columns, no other run, and the
\* timestamps do not rise along the list; getRuns returns that list.
C14_ListIsOwnedSorted ==
    (response.op = "GET" /\ response.status = 200) =>
        LET rows == response.rows
            owned == RunsOfOwner(runsTable, response.request.session)
        IN  /\ Len(rows) = Cardinality(owned)
            /\ {rows[k] : k \in 1..Len(rows)} = {Columns(r) : r \in owned}
            /\ \A k \in 1..(Len(rows) - 1) : rows[k].timestamp >= rows[k + 1].timestamp
            /\ response.result.runs = rows

\* A caller was answered a list of two runs of different timestamps.
C14_Witness ==
    /\ response.op = "GET"
    /\ response.status = 200
    /\ Len(response.rows) = 2
    /\ response.rows[1].timestamp > response.rows[2].timestamp

\* C15: getRuns never throws, and returns the empty list to a caller
\* without a session, to an owner without runs, and when the backend
\* answers with an error or the fetch fails.
C15_ListNeverFails ==
    response.op = "GET" =>
        /\ ~response.result.threw
        /\ (\/ ~Truthy(response.request.session)
            \/ RunsOfOwner(runsTable, response.request.session) = {}
            \/ response.status \in {500, 0})
           => response.result.runs = <<>>

\* getRuns returned the empty list to an owner of a stored run because the
\* backend answered 500.
C15_Witness ==
    /\ response.op = "GET"
    /\ response.status = 500
    /\ RunsOfOwner(runsTable, response.request.session) # {}
    /\ response.result.runs = <<>>

\* The notes of a listed run are those of the saved run R; a run saved
\* without notes is listed with null.
SameNotes(listed, given) ==
    IF given = Undefined THEN listed = Null ELSE listed = given

\* C16: when a create of run R is answered 201, every list the owner can
\* get next holds a run with the id and timestamp of the answer and the
\* className, build, challenges, status and notes of R, ahead of every run
\* that was stored before with an earlier timestamp.
C16_CreateThenList ==
    [][\A i \in 1..Len(requests) :
          (Answered(i) /\ requests[i].op = "POST" /\ response'.status = 201) =>
          LET R == requests[i].body
              new == response'.rows[1]
          IN  \A rows \in SelectRuns(runsTable', requests[i].session) :
                \E k \in 1..Len(rows) :
                    /\ rows[k].id = new.id
                    /\ rows[k].timestamp = new.timestamp
                    /\ rows[k].className = R.className
                    /\ rows[k].build = R.build
                    /\ rows[k].challenges = R.challenges
                    /\ rows[k].status = R.status
                    /\ SameNotes(rows[k].notes, R.notes)
                    /\ \A j \in 1..Len(rows) :
                          (/\ RunsOfId(runsTable, rows[j].id) # {}
                           /\ rows[j].timestamp < new.timestamp) => k < j]_vars

\* The ids of the runs of a file.
FileIds(file) == {file[k].id : k \in 1..Len(file)}

\* C18: while importRuns is under way every stored run stays as it is, and
\* a run that comes into the table has an id that neither a stored run nor
\* a run of the file has, and the timestamp of the clock at its INSERT.
C18_ImportIsAdditive ==
    [][imports # <<>> =>
          /\ runsTable \subseteq runsTable'
          /\ \A r \in runsTable' \ runsTable :
                /\ RunsOfId(runsTable, r.id) = {}
                /\ r.id \notin FileIds(imports[1].file)
                /\ r.timestamp \in {clock, clock + 1}
                /\ r.user_id = imports[1].session]_vars

\* importRuns returned a run it created from a file that carries the id of
\* a run stored before, which is still there.
C18_Witness ==
    /\ response.op = "import"
    /\ Len(response.result.runs) = 1
    /\ \E old, new \in runsTable :
          /\ old.id \in FileIds(response.request.body)
          /\ new.id = response.result.runs[1].id
          /\ new.id # old.id
          /\ old.timestamp < new.timestamp

\* The body of a create or an update that the schema accepts.
ValidBody(req) ==
    /\ req.body.status \in Statuses
    /\ req.op = "POST" => Truthy(req.body.className) /\ Truthy(req.body.build)

\* C19: while a create or an update with a status outside active,
\* completed, failed or with a malformed body is under way, no run and no
\* owner record changes.
C19_InvalidInputWritesNothing ==
    [][\A i \in 1..Len(requests) :
          (requests[i].op \in {"POST", "PATCH"} /\ ~ValidBody(requests[i])) =>
             /\ runsTable' = runsTable
             /\ users' = users]_vars

\* C17: with a backend that does not fail, every create of a signed-in
\* caller with a body the schema accepts is answered 201, also when another
\* create of the same owner is under way, and the owner has its record.
C17_ConcurrentCreatesSucceed ==
    [][\A i \in 1..Len(requests) :
          (/\ Answered(i)
           /\ requests[i].op = "POST"
           /\ Truthy(requests[i].session)
           /\ ValidBody(requests[i]))
          => /\ response'.status = 201
             /\ requests[i].session \in users']_vars

\* The rows an update or a delete is for: the run of its id under its
\* sender.
Target(req) ==
    {r \in runsTable : r.id = req.id /\ r.user_id = req.session}

Written(req, r) ==
    [r EXCEPT !.status = req.body.status,
              !.notes = IF req.body.notes = Undefined THEN Null ELSE req.body.notes]

\* C20: with updates and deletes of one run under way together, an update
\* answered 200 found the run and left it with the status and notes sent,
\* a delete answered 200 found the run and left none, an answer of 404 found
\* no run, every other run stays as it is, and no step of an update or a
\* delete brings a run into the table.
C20_UpdateDeleteAtomic ==
    [][\A i \in 1..Len(requests) :
          (Answered(i) /\ requests[i].op \in {"PATCH", "DELETE"}) =>
          LET req == requests[i]
              others == runsTable \ Target(req)
          IN  /\ response'.status \in {200, 404}
              /\ response'.status = 404 =>
                    Target(req) = {} /\ runsTable' = runsTable
              /\ (response'.status = 200 /\ req.op = "PATCH") =>
                    /\ Target(req) # {}
                    /\ runsTable' = others \cup {Written(req, r) : r \in Target(req)}
              /\ (response'.status = 200 /\ req.op = "DELETE") =>
                    /\ Target(req) # {}
                    /\ runsTable' = others]_vars

\* A delete was answered 200 while an update of the same run by the same
\* owner is under way.
C20_Witness ==
    /\ response.op = "DELETE"
    /\ response.status = 200
    /\ \E k \in 1..Len(requests) :
          /\ requests[k].op = "PATCH"
          /\ requests[k].id = response.request.id
          /\ requests[k].session = response.request.session

\* ------------------------------------------------------------------ draws
ConfirmedIds == {sc.id : sc \in Range(selections.challenges)}

\* C25: in CHALLENGE the pending result is never a challenge whose id is
\* among the confirmed ones, on the first draw, after a confirm and after
\* a reroll.
C25_PendingNotConfirmed ==
    (step = "CHALLENGE" /\ Truthy(pendingResult)) =>
        \A c \in Range(FindByText(pendingResult)) : c.id \notin ConfirmedIds

\* A draw target that designates a candidate of the list
\* availableChallenges.
DrawTargets(availableChallenges) ==
    {<<i>> : i \in 0..(Len(availableChallenges) - 1)}

\* C28: a confirm in BUILD stores the pending result as the build and
\* clears it; with challengeCount > 0 it moves to CHALLENGE with a draw
\* prepared over the whole pool, otherwise it moves to RESULT with an empty
\* challenge list.
C28_ConfirmBuild ==
    [][(lastEvent' = "confirm" /\ step = "BUILD") =>
          /\ selections' = [selections EXCEPT !.build = pendingResult]
          /\ pendingResult' = Null
          /\ IF config.challengeCount > 0
             THEN /\ step' = "CHALLENGE"
                  /\ targetChallengeIndex' \in DrawTargets(CHALLENGES)
             ELSE /\ step' = "RESULT"
                  /\ selections'.challenges = <<>>]_vars

C28_Witness ==
    /\ lastEvent = "confirm"
    /\ step = "RESULT"
    /\ config.challengeCount = 0
    /\ Truthy(selections.build)
    /\ selections.challenges = <<>>

\* C30: a confirm in CLASS stores the pending result as the class and moves
\* to BUILD; and a build that is set is one of the builds of the class of
\* the selections.
C30_BuildOfClass ==
    [][/\ (lastEvent' = "confirm" /\ step = "CLASS") =>
             /\ selections' = [selections EXCEPT !.className = pendingResult]
             /\ step' = "BUILD"
       /\ Truthy(selections'.build) =>
             /\ Truthy(selections'.className)
             /\ selections'.build \in Range(BUILDS[selections'.className])]_vars

C30_Witness ==
    /\ lastEvent = "confirm"
    /\ selections.className = CLASSES[Len(CLASSES)]
    /\ Truthy(selections.build)
    /\ selections.build \notin Range(BUILDS[CLASSES[1]])

\* ------------------------------------------------------------------ scenario
\* C23: from the config {rerolls: 1, challengeCount: 2}, confirming
\* Barbarian, confirming Whirlwind, rerolling No Runewords, confirming No
\* Teleport and confirming SSF is an execution of the flow; the reroll
\* leaves a budget of 0, so that none is available afterwards, and the
\* execution ends in RESULT with Barbarian, Whirlwind, No Teleport and SSF
\* in this order and a budget of 0.
C23_ScenarioEndsInResult ==
    /\ stage \in 7..Len(Scenario) => rerollsLeft = 0 /\ ~HasRerolls
    /\ stage = Len(Scenario) =>
          /\ step = "RESULT"
          /\ selections.className = "Barbarian"
          /\ selections.build = "Whirlwind"
          /\ selections.challenges = <<AllChallenges[2], AllChallenges[3]>>
          /\ config = ScenarioConfig

C23_Witness ==
    /\ stage = Len(Scenario)
    /\ lastEvent = "confirm"
    /\ step = "RESULT"

\* ------------------------------------------------------------------ short pools
\* Every challenge of the pool is confirmed.
Exhausted == \A c \in Range(CHALLENGES) : c.id \in ConfirmedIds

C22_ConfirmWithoutPendingFails ==
    [][(~Truthy(pendingResult) /\ lastEvent' \in {"confirm", "confirm:return", "confirm:throw"}) =>
          lastEvent' = "confirm:throw"]_vars

C26_RerollWithBudget ==
    [][(lastEvent' = "reroll" /\ rerollsLeft > 0) =>
          /\ step \in WheelSteps
          /\ rerollsLeft' = rerollsLeft - 1
          /\ Truthy(pendingResult) /\ pendingResult' = Null
          /\ step' = step
          /\ selections' = selections
          /\ step = "CHALLENGE" =>
                targetChallengeIndex' \in DrawTargets(Available(selections.challenges))]_vars

C26_Witness ==
    /\ lastEvent = "reroll"
    /\ step = "CHALLENGE"
    /\ rerollsLeft < config.rerolls
    /\ pendingResult = Null
    /\ Len(selections.challenges) > 0

\* ------------------------------------------------------------------ selector
\* The sum of the first n weights of the list s.
Cumulative(s, n) == SumWeights(SubSeq(s, 1, n))

\* C27: for a non-empty list of candidates and a value r in [0, totalWeight)
\* the selector returns an index of the list, the first in pool order at
\* which r less the cumulative weight is <= 0, a function of the list and r.
C27_FirstCrossing ==
    draw # NoDraw =>
        LET list == InHalves(draw.availableChallenges)
            Crossed == {i \in 1..Len(list) : draw.random - Cumulative(list, i) <= 0}
        IN  /\ draw.index \in 0..(Len(list) - 1)
            /\ draw.index + 1 \in Crossed
            /\ \A i \in Crossed : draw.index + 1 <= i

C27_Witness ==
    /\ draw.availableChallenges = CHALLENGES
    /\ draw.index = 1
    /\ draw.random = Cumulative(InHalves(CHALLENGES), 2)

\* C24: of the values the random source can take for a list, taken one from
\* the middle of every unit of [0, totalWeight), the share that makes the
\* selector return a candidate is the weight of the candidate over the
\* total weight.
C24_Proportional ==
    draw # NoDraw =>
        LET list == draw.availableChallenges
            Middles == {r \in RandomHalves(list) : r % 2 = 1}
        IN  \A i \in 1..Len(list) :
                Cardinality({r \in Middles :
                    getWeightedChallengeIndex(InHalves(list), r) = i - 1})
                        * SumWeights(list)
                    = list[i].weight * Cardinality(Middles)

C24_Witness ==
    /\ draw.availableChallenges = CHALLENGES
    /\ draw.index = Len(CHALLENGES) - 1
    /\ draw.random % 2 = 1

\* ------------------------------------------------------------------ config
\* The largest option of the challenges select (page.tsx:240-245), within
\* the options the model offers.
MaxOption == Min(5, MaxChallengeCount)

\* C31: the config changes only in steps that begin and end in CONFIG, so
\* it is constant from a start to the next reset, and challengeCount is an
\* integer of 0..5 in every state.
C31_ConfigOnlyInConfig ==
    [][/\ config' # config => (step = "CONFIG" /\ step' = "CONFIG")
       /\ config'.challengeCount \in 0..MaxOption]_vars

C31_Witness ==
    /\ lastEvent = "setChallengeCount"
    /\ step = "CONFIG"
    /\ config.challengeCount = MaxOption
    /\ targetChallengeIndex # <<>>

\* ------------------------------------------------------------------ budget
\* The rerolls that took effect since the start of the flow: start sets the
\* budget to config.rerolls and a reroll that takes effect takes one off.
RerollsUsed == config.rerolls - rerollsLeft

\* C33: the budget is written only by start, which sets it to
\* config.rerolls, and by a reroll, which takes one off; so within a flow
\* the rerolls that take effect, over CLASS, BUILD and every CHALLENGE slot
\* together, number at least 0 and at most config.rerolls.
C33_RerollsWithinConfig ==
    [][/\ rerollsLeft' # rerollsLeft =>
             \/ lastEvent' = "start" /\ rerollsLeft' = config.rerolls
             \/ lastEvent' = "reroll" /\ rerollsLeft' = rerollsLeft - 1
       /\ step' # "CONFIG" => (RerollsUsed' >= 0 /\ RerollsUsed' <= config'.rerolls)]_vars

\* ------------------------------------------------------------------ commitRun
\* C39: in RESULT the class and the build of the selections are set, so a
\* commitRun is never skipped by its test of them and posts a run; and a run
\* that commitRun created has the status active and the class, the build and
\* the challenges of the selections (SpecCommit is one flow, in which the
\* selections of RESULT stay).
C39_CommitCarriesSelections ==
    [][/\ step' = "RESULT" =>
             Truthy(selections'.className) /\ Truthy(selections'.build)
       /\ lastEvent' = "commitRun" =>
             /\ Len(requests') = Len(requests) + 1
             /\ requests'[Len(requests')].body.status = "active"
       /\ \A r \in runsTable' :
             /\ r.status = "active"
             /\ r.className = selections'.className
             /\ r.build = selections'.build
             /\ r.challenges = selections'.challenges]_vars

C39_Witness ==
    /\ step = "RESULT"
    /\ Len(selections.challenges) = MaxChallengeCount
    /\ \E r \in runsTable : r.challenges = selections.challenges

C35_SpinAfterPreparation ==
    [][(lastEvent' = "spin" /\ step = "CHALLENGE") => timeouts = <<>>]_vars

\* ------------------------------------------------------------------ updates
\* This step answers request i, an update or a delete, with 200.
Succeeds(i, op) ==
    /\ Answered(i)
    /\ requests[i].op = op
    /\ response'.status = 200

\* The rows request req names: the run of its id under its sender.
Targets(table, req) == {r \in table : r.id = req.id /\ r.user_id = req.session}

\* The columns neither an update nor a delete writes.
Kept(r) ==
    [id |-> r.id, timestamp |-> r.timestamp, user_id |-> r.user_id,
     className |-> r.className, build |-> r.build, challenges |-> r.challenges]

\* C36: an update that succeeds leaves the run with the status of the call
\* and with its notes, or with notes null when the call has none: notes
\* stored before are not kept.
C36_UpdateSetsNotes ==
    [][\A i \in 1..Len(requests) :
          Succeeds(i, "PATCH") =>
              /\ Targets(runsTable, requests[i]) # {}
              /\ \A r \in Targets(runsTable', requests[i]) :
                    /\ r.status = requests[i].body.status
                    /\ r.notes = IF requests[i].body.notes = Undefined
                                 THEN Null
                                 ELSE requests[i].body.notes]_vars

\* An update without notes was answered 200 and the run it names has the
\* status of the call and no notes.
C36_Witness ==
    /\ response.op = "PATCH"
    /\ response.status = 200
    /\ response.request.body.notes = Undefined
    /\ response.request.body.status = "completed"
    /\ \E r \in Targets(runsTable, response.request) :
          r.notes = Null /\ r.status = "completed"
    /\ \A r \in runsTable : r.notes = Null
    /\ lastEvent = "PATCH"

\* C37: an update that succeeds changes nothing but the status and the notes
\* of the run it names, and a delete that succeeds removes that run and
\* nothing else; a run that enters the table has an id no run had before,
\* so a deleted run does not come back, and an update or delete of an id
\* without a run is answered not-found.
C37_UpdateDeleteFrame ==
    [][/\ \A i \in 1..Len(requests) :
             /\ Succeeds(i, "PATCH") =>
                   /\ runsTable' \ Targets(runsTable', requests[i])
                          = runsTable \ Targets(runsTable, requests[i])
                   /\ {Kept(r) : r \in runsTable'} = {Kept(r) : r \in runsTable}
                   /\ Cardinality(runsTable') = Cardinality(runsTable)
             /\ Succeeds(i, "DELETE") =>
                   /\ Targets(runsTable, requests[i]) # {}
                   /\ runsTable' = runsTable \ Targets(runsTable, requests[i])
             /\ (/\ Answered(i)
                 /\ requests[i].op \in {"PATCH", "DELETE"}
                 /\ RunsOfId(runsTable, requests[i].id) = {})
                => (response'.status \in NotFoundOutcomes \cup {401} /\ ~response'.result.ok)
       /\ \A r \in runsTable' :
             RunsOfId(runsTable, r.id) = {} => r.id = RunId(minted + 1)
       /\ minted' >= minted]_vars

\* A delete was answered 200 and left the other run of its sender stored.
C37_Witness ==
    /\ response.op = "DELETE"
    /\ response.status = 200
    /\ RunsOfId(runsTable, response.request.id) = {}
    /\ \E r \in runsTable : r.user_id = response.request.session

\* C38: every stored run has a status of active, completed, failed and an
\* owner that has an owner record; a create or an update with another status
\* stores no run, changes none and reports failure.
C38_StoredRunsValid ==
    [][/\ \A r \in runsTable' : r.status \in Statuses /\ r.user_id \in users'
       /\ \A i \in 1..Len(requests) :
             (/\ Answered(i)
              /\ requests[i].op \in {"POST", "PATCH"}
              /\ requests[i].body.status \notin Statuses)
             => (runsTable' = runsTable /\ ~response'.result.ok)]_vars

\* An update with a status the table refuses was answered 500 for a run
\* that is stored under its sender.
C38_Witness ==
    /\ response.op = "PATCH"
    /\ response.status = 500
    /\ response.request.body.status \notin Statuses
    /\ Targets(runsTable, response.request) # {}
    /\ lastEvent = "PATCH"

\* ------------------------------------------------------------------ import
\* C32: importRuns saves the records of the file one by one in their order;
\* a record whose create is answered 201 is one more stored run and the
\* last of the runs to return, a record whose create fails is neither
\* stored nor returned, and in both cases the records after it are still
\* to be saved; the call returns once every record was tried, with the runs
\* the store created.
C32_ImportReturnsCreated ==
    [][/\ lastEvent' = "importRuns:save" =>
             /\ requests' = Append(requests,
                    Request("POST", imports[1].session, Null,
                            runData(Head(imports[1].todo)), "import"))
             /\ imports'[1].todo = Tail(imports[1].todo)
             /\ imports'[1].created = imports[1].created
       /\ \A i \in 1..Len(requests) :
             (Answered(i) /\ requests[i].from = "import") =>
                 /\ imports'[1].todo = imports[1].todo
                 /\ IF response'.status = 201
                    THEN \E r \in runsTable' \ runsTable :
                            /\ runsTable' = runsTable \cup {r}
                            /\ runData(r) = [requests[i].body EXCEPT !.notes = r.notes]
                            /\ Len(imports'[1].created) = Len(imports[1].created) + 1
                            /\ SubSeq(imports'[1].created, 1, Len(imports[1].created))
                                  = imports[1].created
                            /\ imports'[1].created[Len(imports'[1].created)].id = r.id
                    ELSE /\ runsTable' = runsTable
                         /\ imports'[1].created = imports[1].created
       /\ lastEvent' = "importRuns:done" =>
             /\ imports[1].todo = <<>>
             /\ response'.result.runs = imports[1].created
             /\ \A k \in 1..Len(imports[1].created) :
                   RunsOfId(runsTable', imports[1].created[k].id) # {}]_vars

\* An import of two records returned one run, that of the second record:
\* the create of the first had failed.
C32_Witness ==
    /\ response.op = "import"
    /\ Len(response.request.body) = 2
    /\ Len(response.result.runs) = 1
    /\ response.result.runs[1].status = response.request.body[2].status
    /\ response.request.body[1].status # response.request.body[2].status
    /\ Cardinality(runsTable) = 1
====
